---- MODULE Spec2Model ----
(***************************************************************************)
(* usb_uart_bridge, src/main.c: a Zephyr application with                  *)
(*   - uart_cb, the UART interrupt callback: frames received bytes into    *)
(*     rx_buf and, on transmit-ready, clears tx_busy, gives tx_done_sem    *)
(*     and disables the transmit interrupt;                                *)
(*   - uart_send_string, called by main() (the greeting) and by the shell  *)
(*     thread (cmd_send_string);                                           *)
(*   - cmd_send_string and cmd_read_last, the two shell commands;          *)
(*   - main(), the startup sequence.                                       *)
(* Threads "main" and "shell" are Zephyr threads and interleave at the     *)
(* granularity of the accesses to the shared variables; uart_cb is one     *)
(* atomic step (an interrupt runs to completion before a thread resumes).  *)
(* Buffers are 1-indexed here: C index k is index k + 1.                   *)
(***************************************************************************)
EXTENDS Integers, Sequences, FiniteSets, TLC

\* Capacities of string_buffer and rx_buf.  The source has 256 and 128; the
\* model keeps every comparison against them and scales the numbers down.
MAX_BUFFER_SIZE == 4
MSG_SIZE == 3

TERMINATING_CHAR == 13
LF == 10
NUL == 0

\* Bounds of the model.
GreetLen == 1        \* characters of the greeting text kept before its CR LF
MaxRx == 4           \* received bytes in a behaviour without shell commands
MaxCmds == 2         \* shell commands in a behaviour
MaxRxCmds == 1       \* received bytes in a behaviour with shell commands
MaxBatch == 2        \* bytes the receive FIFO hands to one uart_cb invocation
\* Received bytes in a behaviour of long lines: a line that overflows rx_buf,
\* its terminator, and the line after it.
MaxRxLine == MSG_SIZE + 3

\* K_SEM_DEFINE(tx_done_sem, 0, 1): the initial count and the limit.
SemInitial == 0
SemLimit == 1

Threads == {"main", "shell"}

\* Characters of received data and of shell arguments ('a', 'b').
DataBytes == {97, 98}
\* Bytes the UART can receive: data, the two terminators and NUL.
RxBytes == DataBytes \cup {TERMINATING_CHAR, LF, NUL}
\* Bytes of a behaviour of long lines: data and CR.
LineBytes == DataBytes \cup {TERMINATING_CHAR}

init_msg_text ==
  << 85, 65, 82, 84, 32, 105, 110, 105, 116, 105, 97, 108, 105, 122, 101, 100,
     32, 97, 110, 100, 32, 114, 101, 97, 100, 121, 32, 102, 111, 114, 32, 99,
     111, 109, 109, 117, 110, 105, 99, 97, 116, 105, 111, 110, 33 >>

\* const char *init_msg = "UART initialized and ready for communication!\r\n",
\* shortened to its first GreetLen characters and the CR LF that ends it.
init_msg == SubSeq(init_msg_text, 1, GreetLen) \o <<TERMINATING_CHAR, LF>>

\* strlen(): the number of bytes before the first NUL of a buffer.
strlen(buf) ==
  IF \E k \in 1..Len(buf) : buf[k] = NUL
    THEN (CHOOSE k \in 1..Len(buf) : buf[k] = NUL /\ \A j \in 1..(k - 1) : buf[j] # NUL) - 1
    ELSE Len(buf)

\* What "%s" prints of a buffer: its bytes up to the first NUL.
CStr(buf) == SubSeq(buf, 1, strlen(buf))

\* Arguments the shell passes as argv[1]: C strings (no NUL) "", "a", "ab",
\* "aba", ... of the four lengths around the limit, up to MAX_BUFFER_SIZE - 1.
Payload(n, k) == [j \in 1..n |-> IF (j + k) % 2 = 0 THEN 97 ELSE 98]
PayloadLens == {n \in 0..(MAX_BUFFER_SIZE - 1) : n >= MAX_BUFFER_SIZE - 4}
Payloads == {Payload(n, 1) : n \in PayloadLens}

Batches == UNION {[1..n -> RxBytes] : n \in 0..MaxBatch}

VARIABLES
  pc,             \* per thread: the statement it is at
  str,            \* per thread: uart_send_string's str ("init_msg" / "string_buffer")
  len,            \* per thread: uart_send_string's len
  i,              \* per thread: the loop index (drain loop, or the %s scan of rx_buf)
  ret,            \* per thread: the value its last call returned
  sendNo,         \* per thread: uart_send_string calls made so far
  cmd,            \* the shell command being run, or the last one run
  uart_ready,     \* device_is_ready(uart)
  dtr,            \* main's dtr
  cb_set,         \* uart_irq_callback_user_data_set(uart, uart_cb, NULL) done
  rx_irq,         \* receive interrupt enabled
  tx_irq,         \* transmit interrupt enabled
  tx_busy,
  tx_done_sem,    \* count of the semaphore, 0..1
  string_buffer,
  rx_buf,
  rx_buf_pos,
  wire,           \* bytes given to uart_poll_out, in order: <<thread, sendNo, byte>>,
                  \* of the send each thread is making or made last
  published,      \* the lines printk("Received: %s\n", rx_buf) printed, in order
  shell_out,      \* what the shell printed for the last "read" command
  rx_stream,      \* every byte uart_fifo_read returned, in order
  tx_signalled,   \* uart_irq_tx_ready has been true in some uart_cb invocation
  rxMax,          \* bytes the UART receives in this behaviour
  rxSet,          \* the values those bytes have
  cmdsLeft        \* shell commands still to come

vars == << pc, str, len, i, ret, sendNo, cmd, uart_ready, dtr, cb_set, rx_irq,
           tx_irq, tx_busy, tx_done_sem, string_buffer, rx_buf, rx_buf_pos,
           wire, published, shell_out, rx_stream,
           tx_signalled, rxMax, rxSet, cmdsLeft >>

\* Variables no thread step other than the ones naming them changes.
rxVars == << rx_buf, rx_buf_pos, published, rx_stream >>
hwVars == << uart_ready, cb_set, rx_irq, tx_irq, tx_signalled, rxMax, rxSet >>

\* A behaviour is one of received traffic while only main() runs, one of a
\* shell command with a little received traffic, one of shell commands, or one
\* of long received lines while only main() runs.
Scenarios == {<<MaxRx, 0, RxBytes>>, <<MaxRxCmds, 1, RxBytes>>, <<0, MaxCmds, RxBytes>>,
              <<MaxRxLine, 0, LineBytes>>}

NoCmd == [kind |-> "none", argc |-> 0, arg |-> <<>>]

Init ==
  /\ pc = [t \in Threads |-> IF t = "main" THEN "m_start" ELSE "sh_idle"]
  /\ str = [t \in Threads |-> "none"]
  /\ len = [t \in Threads |-> 0]
  /\ i = [t \in Threads |-> 0]
  /\ ret = [t \in Threads |-> "none"]
  /\ sendNo = [t \in Threads |-> 0]
  /\ cmd = NoCmd
  /\ uart_ready \in BOOLEAN
  /\ dtr = 0
  /\ cb_set = FALSE
  /\ rx_irq = FALSE
  /\ tx_irq = FALSE
  /\ tx_busy = FALSE
  /\ tx_done_sem = SemInitial
  /\ string_buffer = [k \in 1..MAX_BUFFER_SIZE |-> NUL]
  /\ rx_buf = [k \in 1..MSG_SIZE |-> NUL]
  /\ rx_buf_pos = 0
  /\ wire = <<>>
  /\ published = <<>>
  /\ shell_out = <<>>
  /\ rx_stream = <<>>
  /\ tx_signalled = FALSE
  /\ \E sc \in Scenarios : rxMax = sc[1] /\ cmdsLeft = sc[2] /\ rxSet = sc[3]


(***************************************************************************)
(* uart_cb                                                                 *)
(***************************************************************************)

\* An iteration that stores while the cursor is below the capacity, leaving no
\* room for the NUL.
RxByteNoRoom(st, c) ==
  IF (c = LF \/ c = TERMINATING_CHAR) /\ st.pos > 0
    THEN LET b == [k \in 1..MSG_SIZE |-> IF k = st.pos + 1 THEN NUL ELSE st.buf[k]]
         IN  [buf |-> b, pos |-> 0, out |-> Append(st.out, CStr(b))]
    ELSE IF st.pos < MSG_SIZE
      THEN [buf |-> [st.buf EXCEPT ![st.pos + 1] = c], pos |-> st.pos + 1, out |-> st.out]
      ELSE st

\* An iteration that, when rx_buf is full, keeps the newest byte in place of
\* the last one stored.
RxByteKeepNewest(st, c) ==
  IF (c = LF \/ c = TERMINATING_CHAR) /\ st.pos > 0
    THEN LET b == [st.buf EXCEPT ![st.pos + 1] = NUL]
         IN  [buf |-> b, pos |-> 0, out |-> Append(st.out, CStr(b))]
    ELSE IF st.pos < MSG_SIZE - 1
      THEN [buf |-> [st.buf EXCEPT ![st.pos + 1] = c], pos |-> st.pos + 1, out |-> st.out]
      ELSE [st EXCEPT !.buf[st.pos] = c]

\* One iteration of the receive loop for the byte c.  st is rx_buf,
\* rx_buf_pos and the lines printed so far.
RxByte(st, c) ==
  IF (c = LF \/ c = TERMINATING_CHAR) /\ st.pos > 0
    THEN LET b == [st.buf EXCEPT ![st.pos + 1] = NUL]
         IN  [buf |-> b, pos |-> 0, out |-> Append(st.out, CStr(b))]
    ELSE IF st.pos < MSG_SIZE - 1
      THEN [buf |-> [st.buf EXCEPT ![st.pos + 1] = c], pos |-> st.pos + 1, out |-> st.out]
      ELSE st

\* The receive loop over the bytes the FIFO holds.
RECURSIVE RxLoop(_, _)
RxLoop(st, bytes) ==
  IF bytes = <<>> THEN st ELSE RxLoop(RxByte(st, Head(bytes)), Tail(bytes))

\* A cursor that starts at 0 in every invocation of the callback.
RxStateFresh == [buf |-> rx_buf, pos |-> 0, out |-> published]

RxState == [buf |-> rx_buf, pos |-> rx_buf_pos, out |-> published]

\* A give on a semaphore without a limit.
k_sem_give_unlimited(count) == count + 1

\* k_sem_give: the count goes up by one unless it is at the limit.
k_sem_give(count) == IF count < SemLimit THEN count + 1 ELSE count

\* The interrupt callback.  upd is what uart_irq_update returns, bytes what the
\* receive loop reads (uart_irq_rx_ready and uart_fifo_read succeed for each
\* of them), txr what uart_irq_tx_ready returns.  The callback runs once it is
\* installed, for an interrupt that is enabled.
UartCb(upd, bytes, txr) ==
  /\ cb_set
  /\ rx_irq \/ tx_irq
  /\ upd => ~(bytes = <<>> /\ ~txr)
  /\ bytes # <<>> => rx_irq
  /\ txr => tx_irq
  /\ Len(rx_stream) + Len(bytes) <= rxMax
  /\ \A j \in 1..Len(bytes) : bytes[j] \in rxSet
  /\ IF ~upd
       THEN UNCHANGED vars
       ELSE LET st == RxLoop(RxState, bytes)
            IN  /\ rx_buf' = st.buf
                /\ rx_buf_pos' = st.pos
                /\ published' = st.out
                /\ rx_stream' = rx_stream \o bytes
                /\ IF txr
                     THEN /\ tx_busy' = FALSE
                          /\ tx_done_sem' = k_sem_give(tx_done_sem)
                          /\ tx_irq' = FALSE
                          /\ tx_signalled' = TRUE
                     ELSE UNCHANGED << tx_busy, tx_done_sem, tx_irq, tx_signalled >>
                /\ UNCHANGED << pc, str, len, i, ret, sendNo, cmd, uart_ready, dtr, cb_set,
                                rx_irq, string_buffer, wire, shell_out, rxMax, rxSet, cmdsLeft >>

(***************************************************************************)
(* uart_send_string, run by thread t                                       *)
(***************************************************************************)

\* A device check that always passes.
device_is_ready_always == TRUE

device_is_ready == uart_ready

\* The byte str[k] (C index k) of the string a thread is sending.
StrByte(t, k) ==
  IF str[t] = "init_msg" THEN init_msg[k + 1] ELSE string_buffer[k + 1]

\* Where a thread continues when uart_send_string returns: main() enters its
\* idle loop, cmd_send_string reports and returns to the shell.
AfterSend(t) == IF t = "main" THEN "m_idle" ELSE "sh_idle"

\* if (!device_is_ready(uart)) return -ENODEV;
SendReady(t) ==
  /\ pc[t] = "s_ready"
  /\ IF device_is_ready
       THEN /\ pc' = [pc EXCEPT ![t] = "s_wait"]
            /\ UNCHANGED ret
       ELSE /\ pc' = [pc EXCEPT ![t] = AfterSend(t)]
            /\ ret' = [ret EXCEPT ![t] = "ENODEV"]
  /\ UNCHANGED << str, len, i, sendNo, cmd, dtr, tx_busy, tx_done_sem,
                  string_buffer, wire, shell_out, cmdsLeft >>
  /\ UNCHANGED << rxVars, hwVars >>

\* while (tx_busy): the test.
SendWait(t) ==
  /\ pc[t] = "s_wait"
  /\ pc' = [pc EXCEPT ![t] = IF tx_busy THEN "s_sleep" ELSE "s_mark"]
  /\ UNCHANGED << str, len, i, ret, sendNo, cmd, dtr, tx_busy, tx_done_sem,
                  string_buffer, wire, shell_out, cmdsLeft >>
  /\ UNCHANGED << rxVars, hwVars >>

\* k_sleep(K_MSEC(1)) in the wait loop.
SendSleep(t) ==
  /\ pc[t] = "s_sleep"
  /\ pc' = [pc EXCEPT ![t] = "s_wait"]
  /\ UNCHANGED << str, len, i, ret, sendNo, cmd, dtr, tx_busy, tx_done_sem,
                  string_buffer, wire, shell_out, cmdsLeft >>
  /\ UNCHANGED << rxVars, hwVars >>

\* tx_busy = true;
SendMark(t) ==
  /\ pc[t] = "s_mark"
  /\ tx_busy' = TRUE
  /\ pc' = [pc EXCEPT ![t] = "s_enable"]
  /\ UNCHANGED << str, len, i, ret, sendNo, cmd, dtr, tx_done_sem,
                  string_buffer, wire, shell_out, cmdsLeft >>
  /\ UNCHANGED << rxVars, hwVars >>

\* uart_irq_tx_enable(uart); and the entry of the for loop.
SendEnable(t) ==
  /\ pc[t] = "s_enable"
  /\ tx_irq' = TRUE
  /\ i' = [i EXCEPT ![t] = 0]
  /\ pc' = [pc EXCEPT ![t] = IF len[t] > 0 THEN "s_drain" ELSE "s_take"]
  /\ UNCHANGED << str, len, ret, sendNo, cmd, dtr, tx_busy, tx_done_sem,
                  string_buffer, wire, shell_out, cmdsLeft >>
  /\ UNCHANGED << rxVars, uart_ready, cb_set, rx_irq, tx_signalled, rxMax, rxSet >>

\* One iteration of the for loop: uart_poll_out(uart, str[i]); k_busy_wait(100);
SendDrain(t) ==
  /\ pc[t] = "s_drain"
  /\ wire' = Append(wire, <<t, sendNo[t], StrByte(t, i[t])>>)
  /\ i' = [i EXCEPT ![t] = i[t] + 1]
  /\ pc' = [pc EXCEPT ![t] = IF i[t] + 1 < len[t] THEN "s_drain" ELSE "s_take"]
  /\ UNCHANGED << str, len, ret, sendNo, cmd, dtr, tx_busy, tx_done_sem,
                  string_buffer, shell_out, cmdsLeft >>
  /\ UNCHANGED << rxVars, hwVars >>

\* return k_sem_take(&tx_done_sem, K_MSEC(100)): the semaphore is taken when
\* its count is 1; while it is 0 the 100 ms may run out (-EAGAIN).
SendTake(t) ==
  /\ pc[t] = "s_take"
  /\ IF tx_done_sem > 0
       THEN /\ tx_done_sem' = tx_done_sem - 1
            /\ ret' = [ret EXCEPT ![t] = "OK"]
       ELSE /\ UNCHANGED tx_done_sem
            /\ ret' = [ret EXCEPT ![t] = "EAGAIN"]
  /\ pc' = [pc EXCEPT ![t] = AfterSend(t)]
  /\ UNCHANGED << str, len, i, sendNo, cmd, dtr, tx_busy,
                  string_buffer, wire, shell_out, cmdsLeft >>
  /\ UNCHANGED << rxVars, hwVars >>

uart_send_string(t) ==
  \/ SendReady(t)
  \/ SendWait(t)
  \/ SendSleep(t)
  \/ SendMark(t)
  \/ SendEnable(t)
  \/ SendDrain(t)
  \/ SendTake(t)


(***************************************************************************)
(* cmd_send_string and cmd_read_last, run by the shell thread              *)
(***************************************************************************)

\* A length check that only keeps the copy inside the buffer.
FitsBufferNoRoom(input_len) == input_len < MAX_BUFFER_SIZE

\* if (input_len < MAX_BUFFER_SIZE - 2)
FitsBuffer(input_len) == input_len < MAX_BUFFER_SIZE - 2

\* memset(string_buffer, 0, MAX_BUFFER_SIZE);
ClearedBuffer == [k \in 1..MAX_BUFFER_SIZE |-> NUL]

\* The two terminators written in the other order.
FilledBufferLfCr(arg) ==
  [k \in 1..MAX_BUFFER_SIZE |->
     IF k <= Len(arg) THEN arg[k]
     ELSE IF k = Len(arg) + 1 THEN LF
     ELSE IF k = Len(arg) + 2 THEN TERMINATING_CHAR
     ELSE NUL]

\* strncpy(string_buffer, argv[1], input_len); string_buffer[input_len] =
\* TERMINATING_CHAR; string_buffer[input_len + 1] = '\n'; on the cleared buffer.
FilledBuffer(arg) ==
  [k \in 1..MAX_BUFFER_SIZE |->
     IF k <= Len(arg) THEN arg[k]
     ELSE IF k = Len(arg) + 1 THEN TERMINATING_CHAR
     ELSE IF k = Len(arg) + 2 THEN LF
     ELSE NUL]

\* The log of the wire once a thread starts a new send: the log keeps, of each
\* thread, the bytes of the send it is making or made last.
OtherSends(t) == SelectSeq(wire, LAMBDA e : e[1] # t)

\* cmd_send_string up to its call of uart_send_string, or to its return when it
\* rejects the command.  arg is argv[1] (the empty string stands for an absent
\* one when argc < 2).
CmdSendString(argc, arg) ==
  /\ pc["shell"] = "sh_idle"
  /\ cmdsLeft > 0
  /\ cmdsLeft' = cmdsLeft - 1
  /\ cmd' = [kind |-> "send", argc |-> argc, arg |-> arg]
  /\ IF argc # 2
       THEN /\ ret' = [ret EXCEPT !["shell"] = "EINVAL"]
            /\ UNCHANGED << pc, str, len, sendNo, string_buffer, wire >>
       ELSE IF FitsBuffer(Len(arg))
         THEN /\ string_buffer' = FilledBuffer(arg)
              /\ wire' = OtherSends("shell")
              /\ str' = [str EXCEPT !["shell"] = "string_buffer"]
              /\ len' = [len EXCEPT !["shell"] = Len(arg) + 2]
              /\ sendNo' = [sendNo EXCEPT !["shell"] = sendNo["shell"] + 1]
              /\ ret' = [ret EXCEPT !["shell"] = "none"]
              /\ pc' = [pc EXCEPT !["shell"] = "s_ready"]
         ELSE /\ string_buffer' = ClearedBuffer
              /\ ret' = [ret EXCEPT !["shell"] = "EINVAL"]
              /\ UNCHANGED << pc, str, len, sendNo, wire >>
  /\ UNCHANGED << i, dtr, tx_busy, tx_done_sem, shell_out >>
  /\ UNCHANGED << rxVars, hwVars >>

\* cmd_read_last: shell_print("... %s", rx_buf) starts reading rx_buf.
CmdReadLast ==
  /\ pc["shell"] = "sh_idle"
  /\ cmdsLeft > 0
  /\ cmdsLeft' = cmdsLeft - 1
  /\ cmd' = [kind |-> "read", argc |-> 1, arg |-> <<>>]
  /\ shell_out' = <<>>
  /\ i' = [i EXCEPT !["shell"] = 0]
  /\ ret' = [ret EXCEPT !["shell"] = "none"]
  /\ pc' = [pc EXCEPT !["shell"] = "r_scan"]
  /\ UNCHANGED << str, len, sendNo, dtr, tx_busy, tx_done_sem, string_buffer, wire >>
  /\ UNCHANGED << rxVars, hwVars >>

\* "%s" reads rx_buf byte by byte up to its first NUL (uart_cb may run between
\* two reads); then cmd_read_last returns 0.
ReadScan ==
  /\ pc["shell"] = "r_scan"
  /\ IF i["shell"] < MSG_SIZE /\ rx_buf[i["shell"] + 1] # NUL
       THEN /\ shell_out' = Append(shell_out, rx_buf[i["shell"] + 1])
            /\ i' = [i EXCEPT !["shell"] = i["shell"] + 1]
            /\ UNCHANGED << pc, ret >>
       ELSE /\ pc' = [pc EXCEPT !["shell"] = "sh_idle"]
            /\ ret' = [ret EXCEPT !["shell"] = "OK"]
            /\ UNCHANGED << shell_out, i >>
  /\ UNCHANGED << str, len, sendNo, cmd, dtr, tx_busy, tx_done_sem,
                  string_buffer, wire, cmdsLeft >>
  /\ UNCHANGED << rxVars, hwVars >>

\* What cmd_read_last prints when uart_cb does not run while it reads.
read_last == CStr(rx_buf)

(***************************************************************************)
(* main                                                                    *)
(***************************************************************************)

mainVarsKept == << str, len, i, ret, sendNo, cmd, tx_busy, tx_done_sem,
                   string_buffer, wire, shell_out, cmdsLeft >>

\* if (!device_is_ready(uart)) { ...; return -1; }  if (usb_enable(NULL))
\* return 0;  ok is whether usb_enable returned 0.
MainStart(ok) ==
  /\ pc["main"] = "m_start"
  /\ pc' = [pc EXCEPT !["main"] = IF ~device_is_ready THEN "m_halt"
                                  ELSE IF ~ok THEN "m_exit" ELSE "m_dtr"]
  /\ UNCHANGED << mainVarsKept, dtr, rxVars, hwVars >>

\* while (!dtr): uart_line_ctrl_get(dev, UART_LINE_CTRL_DTR, &dtr) and the
\* entry of k_sleep(K_MSEC(100)).  d is the state of the line.
MainDtrGet(d) ==
  /\ pc["main"] = "m_dtr"
  /\ dtr' = d
  /\ pc' = [pc EXCEPT !["main"] = "m_dtr_sleep"]
  /\ UNCHANGED << mainVarsKept, rxVars, hwVars >>

\* A wait that ends after one poll, whatever the line's state.
MainDtrWakeAnyway ==
  /\ pc["main"] = "m_dtr_sleep"
  /\ pc' = [pc EXCEPT !["main"] = "m_cb_set"]
  /\ UNCHANGED << mainVarsKept, dtr, rxVars, hwVars >>

\* The end of k_sleep(K_MSEC(100)) and the test of while (!dtr).
MainDtrWake ==
  /\ pc["main"] = "m_dtr_sleep"
  /\ pc' = [pc EXCEPT !["main"] = IF dtr = 0 THEN "m_dtr" ELSE "m_cb_set"]
  /\ UNCHANGED << mainVarsKept, dtr, rxVars, hwVars >>

\* uart_irq_callback_user_data_set(uart, uart_cb, NULL);
MainCbSet ==
  /\ pc["main"] = "m_cb_set"
  /\ cb_set' = TRUE
  /\ pc' = [pc EXCEPT !["main"] = "m_rx_enable"]
  /\ UNCHANGED << mainVarsKept, dtr, rxVars, uart_ready, rx_irq, tx_irq, tx_signalled, rxMax, rxSet >>

\* uart_irq_rx_enable(uart); printk("UART Communication Ready\n"); and the call
\* uart_send_string(init_msg, strlen(init_msg)).
MainRxEnable ==
  /\ pc["main"] = "m_rx_enable"
  /\ rx_irq' = TRUE
  /\ str' = [str EXCEPT !["main"] = "init_msg"]
  /\ len' = [len EXCEPT !["main"] = strlen(init_msg)]
  /\ sendNo' = [sendNo EXCEPT !["main"] = sendNo["main"] + 1]
  /\ pc' = [pc EXCEPT !["main"] = "s_ready"]
  /\ UNCHANGED << i, ret, cmd, dtr, tx_busy, tx_done_sem, string_buffer, wire,
                  shell_out, cmdsLeft, rxVars, uart_ready, cb_set, tx_irq,
                  tx_signalled, rxMax, rxSet >>

main ==
  \/ \E ok \in BOOLEAN : MainStart(ok)
  \/ \E d \in 0..1 : MainDtrGet(d)
  \/ MainDtrWake
  \/ MainCbSet
  \/ MainRxEnable
  \/ uart_send_string("main")

shell ==
  \/ \E argc \in {1, 3} : CmdSendString(argc, <<>>)
  \/ \E arg \in Payloads : CmdSendString(2, arg)
  \/ CmdReadLast
  \/ ReadScan
  \/ uart_send_string("shell")

Interrupt ==
  \/ UartCb(FALSE, <<>>, FALSE)
  \/ \E bytes \in Batches, txr \in BOOLEAN : UartCb(TRUE, bytes, txr)

Next == main \/ shell \/ Interrupt

Spec == Init /\ [][Next]_vars

\* The kernel's default priorities: main() has the higher one, so the shell
\* thread runs only while main() sleeps, waits for the semaphore or has returned.
MainBlocked ==
  \/ pc["main"] \in {"m_dtr_sleep", "s_sleep", "m_idle", "m_halt", "m_exit"}
  \/ pc["main"] = "s_take" /\ tx_done_sem = 0

NextPrio == main \/ (MainBlocked /\ shell) \/ Interrupt

SpecPrio == Init /\ [][NextPrio]_vars

\* Every thread that can run gets to run: the kernel schedules both threads,
\* and each of them sleeps or blocks in every loop it has.
FairSpec == Spec /\ WF_vars(main) /\ WF_vars(shell)


(***************************************************************************)
(* Properties                                                              *)
(***************************************************************************)

\* The statements of uart_send_string.
SendPcs == {"s_ready", "s_wait", "s_sleep", "s_mark", "s_enable", "s_drain", "s_take"}

\* The send (thread and call number) an entry of the wire log belongs to.
SendOf(e) == <<e[1], e[2]>>

\* The bytes the transport got from call n of uart_send_string by thread t.
BytesOf(t, n) ==
  LET sel == SelectSeq(wire, LAMBDA e : SendOf(e) = <<t, n>>)
  IN  [k \in 1..Len(sel) |-> sel[k][3]]

\* The shell's current or last command is send with one argument.
SendCmd == cmd.kind = "send" /\ cmd.argc = 2

\* That command has returned.
ShellReturned == pc["shell"] = "sh_idle"

\* C1: the bytes the transport observes are never a mixture of two sends: the
\* bytes of one send are never separated by a byte of another send.
C1_NoInterleavedSends ==
  \A p, q, r \in 1..Len(wire) :
    (p < q /\ q < r /\ SendOf(wire[p]) = SendOf(wire[r])) => SendOf(wire[q]) = SendOf(wire[p])

\* C2: if the transport never signals transmit completion (and the device is
\* ready), every send command that reaches uart_send_string, the first and
\* every later one, eventually returns the timeout failure.
C2_EverySendTimesOut ==
  (uart_ready /\ []~tx_signalled) =>
    [](pc["shell"] \in SendPcs => <>(ShellReturned /\ ret["shell"] = "EAGAIN"))

\* C3: when send with an argument of length <= MAX_BUFFER_SIZE - 2 has reported
\* success, the bytes the transport got from that call are exactly the argument,
\* then CR, then LF.
C3_SuccessSentPayloadCrLf ==
  (SendCmd /\ ShellReturned /\ ret["shell"] = "OK" /\ Len(cmd.arg) <= MAX_BUFFER_SIZE - 2)
    => BytesOf("shell", sendNo["shell"]) = cmd.arg \o <<TERMINATING_CHAR, LF>>

\* A send of a non-empty argument has reported success after the greeting
\* went out too.
C3_Witness ==
  /\ SendCmd /\ ShellReturned /\ ret["shell"] = "OK"
  /\ Len(cmd.arg) > 0
  /\ BytesOf("shell", sendNo["shell"]) = cmd.arg \o <<TERMINATING_CHAR, LF>>
  /\ BytesOf("main", 1) = init_msg

\* The send command was rejected by cmd_send_string itself.
Rejected == ShellReturned /\ ret["shell"] = "EINVAL"

\* C4: send hands its argument to uart_send_string if and only if the
\* argument's length + 2 <= MAX_BUFFER_SIZE.
C4_HandedIffFits ==
  SendCmd => (~Rejected <=> Len(cmd.arg) + 2 <= MAX_BUFFER_SIZE)

\* A step of the shell that starts a send command with the argument arg.
StartsSend(arg) ==
  /\ cmdsLeft' = cmdsLeft - 1
  /\ cmd' = [kind |-> "send", argc |-> 2, arg |-> arg]

\* C5: a send command whose argument is longer than MAX_BUFFER_SIZE - 2 returns
\* the rejection in the step that starts it, and that step sends no byte, does
\* not enable the transmit interrupt and leaves tx_busy and tx_done_sem alone.
C5_TooLongRejectedUntouched ==
  [][\A arg \in Payloads :
       (StartsSend(arg) /\ Len(arg) > MAX_BUFFER_SIZE - 2)
         => /\ pc'["shell"] = "sh_idle"
            /\ ret'["shell"] = "EINVAL"
            /\ UNCHANGED << wire, tx_irq, tx_busy, tx_done_sem, sendNo >>]_vars

\* A too long argument was rejected while main's send was under way.
C5_Witness ==
  /\ SendCmd /\ Rejected
  /\ Len(cmd.arg) > MAX_BUFFER_SIZE - 2
  /\ tx_busy /\ tx_irq /\ pc["main"] = "s_drain"

\* C10: when the device is not ready, a call of uart_send_string returns
\* -ENODEV in its first step, and that step sends no byte, does not enable the
\* transmit interrupt and leaves tx_busy and tx_done_sem alone.
C10_NotReadyReturnsENODEV ==
  [][\A t \in Threads :
       (pc[t] = "s_ready" /\ pc'[t] # "s_ready" /\ ~uart_ready)
         => /\ pc'[t] = AfterSend(t)
            /\ ret'[t] = "ENODEV"
            /\ ret'[t] \notin {"OK", "EAGAIN"}
            /\ UNCHANGED << wire, tx_irq, tx_busy, tx_done_sem >>]_vars

\* A send command has returned -ENODEV and nothing was sent.
C10_Witness ==
  /\ ~uart_ready
  /\ SendCmd /\ ShellReturned /\ ret["shell"] = "ENODEV"
  /\ wire = <<>> /\ ~tx_irq /\ ~tx_busy /\ tx_done_sem = 0


\* rx_buf, rx_buf_pos and the printed lines after the first k received bytes.
RxAfter(k) ==
  RxLoop([buf |-> [j \in 1..MSG_SIZE |-> NUL], pos |-> 0, out |-> <<>>],
         SubSeq(rx_stream, 1, k))

IsTerminator(c) == c = TERMINATING_CHAR \/ c = LF

\* The received bytes k+1 .. n.
Received(k, n) == SubSeq(rx_stream, k + 1, n)

NoTerminatorIn(seq) == \A j \in 1..Len(seq) : ~IsTerminator(seq[j])

\* The number of received bytes when the last line was published (0: none was).
LastPublishedAt ==
  LET at == {k \in 1..Len(rx_stream) : Len(RxAfter(k).out) > Len(RxAfter(k - 1).out)}
  IN  IF at = {} THEN 0 ELSE CHOOSE k \in at : \A j \in at : j <= k

\* C6: for bytes received from a point where rx_buf_pos was 0, with exactly one
\* terminator and that one last, read returns exactly the bytes before the
\* terminator (none of them, all of them when they are more than rx_buf holds).
C6_ReadReturnsLineBeforeTerminator ==
  LET n == Len(rx_stream)
  IN  \A k \in 0..(n - 1) :
        (/\ RxAfter(k).pos = 0
         /\ IsTerminator(rx_stream[n])
         /\ NoTerminatorIn(Received(k, n - 1)))
          => read_last = Received(k, n - 1)

\* No NUL byte was received: the received bytes are text.
TextReceived == \A j \in 1..Len(rx_stream) : rx_stream[j] # NUL

\* C7: once two terminators have been received one after the other (in received
\* text), no empty line has been published and read returns the line published
\* last (nothing when none was).
C7_SecondTerminatorKeepsLine ==
  LET n == Len(rx_stream)
  IN  (TextReceived /\ n >= 2 /\ IsTerminator(rx_stream[n - 1]) /\ IsTerminator(rx_stream[n]))
        => /\ \A j \in 1..Len(published) : published[j] # <<>>
           /\ read_last = IF published = <<>> THEN <<>> ELSE published[Len(published)]

\* C8: after a line was published, while the bytes received since hold no
\* terminator (in received text), read returns that line.
C8_UnterminatedBytesInvisible ==
  (TextReceived /\ published # <<>> /\ NoTerminatorIn(Received(LastPublishedAt, Len(rx_stream))))
    => read_last = published[Len(published)]

\* C9: no published line contains CR or LF.
C9_NoTerminatorInPublishedLine ==
  \A j \in 1..Len(published) : NoTerminatorIn(published[j])

\* C11: from the statement after tx_busy = true until the last byte of the send
\* has been given to uart_poll_out, tx_busy is true (uart_cb clears it and gives
\* tx_done_sem only after the last byte).
C11_BusyUntilLastByte ==
  \A t \in Threads : pc[t] \in {"s_enable", "s_drain"} => tx_busy

\* C12: tx_done_sem is 0 whenever a send sets tx_busy, so that the count a send
\* takes was given for that send.
C12_NoSignalLeftWhenMarking ==
  \A t \in Threads : pc[t] = "s_mark" => tx_done_sem = 0

\* C13: in the step in which a send returns -EAGAIN, tx_busy is true and the
\* transmit interrupt is enabled; and tx_busy goes from true to false only in
\* an invocation of uart_cb that sees transmit-ready.
C13_TimeoutLeavesBusyAndIrq ==
  [][/\ \A t \in Threads :
          (pc[t] = "s_take" /\ pc'[t] # "s_take" /\ ret'[t] = "EAGAIN")
            => (tx_busy' /\ tx_irq')
     /\ (tx_busy /\ ~tx_busy') => (tx_irq /\ ~tx_irq' /\ tx_signalled')]_vars

\* C14: rx_buf_pos is in 0 .. MSG_SIZE - 1 in every state, however the received
\* bytes are split over invocations of uart_cb; and a byte received while the
\* cursor is MSG_SIZE - 1 leaves rx_buf and the cursor alone unless it is a
\* terminator, which sets the cursor to 0.
C14_CursorWithinCapacity ==
  /\ rx_buf_pos \in 0..(MSG_SIZE - 1)
  /\ rx_buf_pos = RxAfter(Len(rx_stream)).pos
  /\ rx_buf = RxAfter(Len(rx_stream)).buf
  /\ \A k \in 1..Len(rx_stream) :
       LET b == RxAfter(k - 1)
           a == RxAfter(k)
       IN  b.pos = MSG_SIZE - 1
             => IF IsTerminator(rx_stream[k])
                  THEN a.pos = 0
                  ELSE a.pos = MSG_SIZE - 1 /\ a.buf = b.buf

\* The last received byte, not a terminator, came in a later invocation than
\* the first one, found rx_buf full and was dropped.
C14_Witness ==
  LET n == Len(rx_stream)
  IN  /\ n > MaxBatch
      /\ RxAfter(n - 1).pos = MSG_SIZE - 1
      /\ ~IsTerminator(rx_stream[n])
      /\ rx_buf_pos = MSG_SIZE - 1

\* A step in which the shell's send command returns the rejection, for a wrong
\* number of arguments or for an argument longer than MAX_BUFFER_SIZE - 2.
RejectsSend ==
  /\ cmdsLeft' = cmdsLeft - 1
  /\ cmd'.kind = "send"
  /\ cmd'.argc # 2 \/ Len(cmd'.arg) > MAX_BUFFER_SIZE - 2
  /\ pc'["shell"] = "sh_idle"
  /\ ret'["shell"] = "EINVAL"

\* C15: a send command that is rejected (argument too long, or wrong number of
\* arguments) leaves string_buffer as it was before the command.
C15_RejectedSendKeepsBuffer ==
  [][RejectsSend => UNCHANGED string_buffer]_vars

\* The received bytes at which line j was published (0 for j = 0).
PubPos(j) ==
  IF j = 0 THEN 0
  ELSE CHOOSE k \in 1..Len(rx_stream) :
         Len(RxAfter(k).out) = j /\ Len(RxAfter(k - 1).out) = j - 1

\* The bytes received after the publication of line j - 1 and before the
\* terminator that published line j.
Since(j) == Received(PubPos(j - 1), PubPos(j) - 1)

\* The first n elements of a sequence, all of it when it is shorter.
Prefix(seq, n) == SubSeq(seq, 1, IF n < Len(seq) THEN n ELSE Len(seq))

\* Line j was published after more than MSG_SIZE - 1 bytes, none a terminator.
Overflowed(j) == Len(Since(j)) > MSG_SIZE - 1 /\ NoTerminatorIn(Since(j))

\* What C16 says of the published lines: a line that overflowed is the first
\* MSG_SIZE - 1 bytes received since the publication before it, and the line
\* after it is made of the bytes received after it only.
OverflowKeepsFirstBytes ==
  \A j \in 1..Len(published) :
    Overflowed(j)
      => /\ published[j] = SubSeq(Since(j), 1, MSG_SIZE - 1)
         /\ j < Len(published) => published[j + 1] = Prefix(Since(j + 1), MSG_SIZE - 1)

\* C16, for received text (no NUL byte): when more than MSG_SIZE - 1 bytes, none
\* a terminator, arrive before a terminator, the line published is the first
\* MSG_SIZE - 1 of them, and the dropped ones are not in the next line either.
C16_OverflowKeepsFirstBytes == TextReceived => OverflowKeepsFirstBytes

\* C16 as stated, for every byte stream: when more than MSG_SIZE - 1 bytes, none
\* a terminator, arrive before a terminator, the line published is the first
\* MSG_SIZE - 1 of them, and the dropped ones are not in the next line either.
C16_OverflowKeepsFirstBytesOfAnyStream == OverflowKeepsFirstBytes

\* A line of text overflowed rx_buf, was published, and so was the line after it.
C16_Witness ==
  /\ TextReceived
  /\ Len(published) >= 2
  /\ Overflowed(1)
  /\ published[1] = SubSeq(rx_stream, 1, MSG_SIZE - 1)
  /\ published[2] = Prefix(Since(2), MSG_SIZE - 1)

\* C17: the receive interrupt is enabled only after DTR was read set, and the
\* greeting is given to uart_send_string only after the receive interrupt was
\* enabled; when the device is not ready main() stops at its first test: no
\* callback, no receive interrupt, no greeting, no byte sent.
C17_StartupOrder ==
  /\ rx_irq => (uart_ready /\ cb_set /\ dtr # 0)
  /\ (sendNo["main"] > 0 \/ pc["main"] \in SendPcs \cup {"m_idle"}) => rx_irq
  /\ (\E k \in 1..Len(wire) : wire[k][1] = "main") => rx_irq
  /\ ~uart_ready => /\ pc["main"] \in {"m_start", "m_halt"}
                    /\ ~cb_set /\ ~rx_irq /\ sendNo["main"] = 0 /\ wire = <<>>

\* The greeting went out, after DTR was read set and receive was enabled.
C17_Witness ==
  /\ pc["main"] = "m_idle" /\ dtr = 1 /\ rx_irq
  /\ BytesOf("main", 1) = init_msg
  /\ ret["main"] = "OK"

\* C18: whenever the transmit interrupt is enabled, tx_busy is true.
C18_TxIrqImpliesBusy == tx_irq => tx_busy

\* rx_buf, rx_buf_pos and the published lines are what one pass of the receive
\* loop over all the bytes received so far gives.
AsOneInvocation ==
  LET st == RxAfter(Len(rx_stream))
  IN  rx_buf = st.buf /\ rx_buf_pos = st.pos /\ published = st.out

\* C19: rx_buf, rx_buf_pos and the published lines are, in every state, what
\* one invocation of uart_cb given all the bytes received so far would have
\* left, however the bytes were split over invocations; and a step that
\* receives no byte (a step of a send among them) leaves all three alone.
C19_FramingIndependentOfBatching ==
  /\ []AsOneInvocation
  /\ [][(rx_stream' = rx_stream \/ pc' # pc \/ wire' # wire)
          => UNCHANGED << rx_buf, rx_buf_pos, published >>]_vars

\* Bytes came in more than one invocation, a line was published and more
\* bytes followed it, while the greeting was being sent.
C19_Witness ==
  /\ Len(rx_stream) > MaxBatch
  /\ published # <<>>
  /\ rx_buf_pos > 0
  /\ wire # <<>> /\ pc["main"] = "s_drain"

\* C20: the count of tx_done_sem is 0 or 1 in every state.
C20_SemaphoreBinary == tx_done_sem \in {0, 1}

\* The greeting's take timed out, and uart_cb has given the semaphore in the
\* shell's send that followed: the count is 1 and the shell has yet to take it.
C20_Witness ==
  /\ ret["main"] = "EAGAIN"
  /\ pc["shell"] = "s_take"
  /\ ~tx_irq /\ ~tx_busy
  /\ tx_done_sem = 1

====
